---- MODULE Spec2Model ----
(***************************************************************************)
(* A model of pyphi/distance.py: the Hamming cost-matrix provider with its *)
(* two cache tiers, the primitive measures hamming_emd, effect_emd and     *)
(* mp2q, and the three dispatchers directional_emd, small_phi_measure and  *)
(* big_phi_measure.                                                        *)
(*                                                                         *)
(* One module holds six state machines  over disjoint groups of variables: *)
(*   SpecDispatch  the dispatchers under a changing global configuration   *)
(*   SpecSeq       one process requesting cost matrices, one at a time     *)
(*   SpecRace      several processes racing on the persistent cache        *)
(*   SpecEmd       hamming_emd and effect_emd on product distributions     *)
(*   SpecShape     hamming_emd on distributions with singleton axes        *)
(*   SpecMp2q      mp2q on distributions with zero-mass states             *)
(***************************************************************************)
EXTENDS Integers, Sequences, FiniteSets, TLC

VARIABLES
    MEASURE,      \* config.MEASURE, re-read by every dispatch call
    PRECISION,    \* config.PRECISION
    outcome,      \* what the last dispatcher call did
    cache,        \* the persistent joblib store of _compute_hamming_matrix
    computeCount, \* how often the body of _compute_hamming_matrix ran, per N
    trace,        \* the requests answered so far: <<N, source>>
    procs,        \* the processes of the run
    pc,           \* each process's position inside _hamming_matrix
    req,          \* each process's argument N
    local,        \* each process's freshly computed matrix
    ret,          \* each process's returned matrix
    d1,           \* first repertoire handed to a primitive
    d2,           \* second repertoire handed to a primitive
    emdOut,       \* what hamming_emd / effect_emd returned and used
    mpOut         \* what mp2q computed, term by term

dispatchVars == <<MEASURE, PRECISION, outcome>>
cacheVars == <<cache, computeCount, trace, procs, pc, req, local, ret>>
measureVars == <<d1, d2, emdOut, mpOut>>
vars == <<MEASURE, PRECISION, outcome, cache, computeCount, trace, procs, pc,
          req, local, ret, d1, d2, emdOut, mpOut>>

None == "none"

(***************************************************************************)
(* Bounds of the model.                                                    *)
(***************************************************************************)
\* raw primitive outputs are multiples of 10^-RawDigits
RawDigits == 1
\* raw primitive outputs lie in -MaxRaw .. MaxRaw (in units of 10^-RawDigits)
MaxRaw == 15
\* config.PRECISION ranges over 0 .. MaxPrecision
MaxPrecision == 10

(***************************************************************************)
(* Arithmetic helpers.                                                     *)
(***************************************************************************)
Pow(b, e) == b ^ e

Abs(x) == IF x < 0 THEN -x ELSE x

Min(a, b) == IF a < b THEN a ELSE b

(***************************************************************************)
(* constants.py identifiers and the Direction enumeration.                 *)
(***************************************************************************)
EMD == "EMD"
KLD == "KLD"
L1 == "L1"
ENTROPY_DIFFERENCE == "ENTROPY_DIFFERENCE"
PSQ2 == "PSQ2"
MP2Q == "MP2Q"
\* an identifier no registry knows
BOGUS == "BOGUS"
Measures == {EMD, KLD, L1, ENTROPY_DIFFERENCE, PSQ2, MP2Q, BOGUS}

PAST == "PAST"
FUTURE == "FUTURE"
BIDIRECTIONAL == "BIDIRECTIONAL"
Directions == {PAST, FUTURE, BIDIRECTIONAL}

\* measure_dict with the EMD entry left out
measure_dict_without_emd ==
    [m \in {KLD, L1, ENTROPY_DIFFERENCE, PSQ2, MP2Q} |->
        CASE m = KLD -> "kld"
          [] m = L1 -> "l1"
          [] m = ENTROPY_DIFFERENCE -> "entropy_difference"
          [] m = PSQ2 -> "psq2"
          [] m = MP2Q -> "mp2q"]

\* distance.py 168-175: measure names to functions
measure_dict ==
    [m \in {EMD, KLD, L1, ENTROPY_DIFFERENCE, PSQ2, MP2Q} |->
        CASE m = EMD -> "hamming_emd"
          [] m = KLD -> "kld"
          [] m = L1 -> "l1"
          [] m = ENTROPY_DIFFERENCE -> "entropy_difference"
          [] m = PSQ2 -> "psq2"
          [] m = MP2Q -> "mp2q"]

\* distance.py 178
ASYMMETRIC_MEASURES == {KLD, MP2Q}

(***************************************************************************)
(* round(x, ndigits) on a value held in units of 10^-RawDigits: the        *)
(* nearest multiple of 10^-ndigits, a tie going to the even multiple.      *)
(***************************************************************************)
FloorDiv(a, b) == a \div b

RoundHalfEven(x, q) ==
    LET lo == FloorDiv(x, q)
        r == x - lo * q
    IN  IF 2 * r < q THEN lo * q
        ELSE IF 2 * r > q THEN (lo + 1) * q
        ELSE IF lo % 2 = 0 THEN lo * q ELSE (lo + 1) * q

round(x, ndigits) ==
    IF ndigits >= RawDigits THEN x
    ELSE RoundHalfEven(x, Pow(10, RawDigits - ndigits))

RawValues == (-MaxRaw) .. MaxRaw
Precisions == 0 .. MaxPrecision

(***************************************************************************)
(* The validation collaborator (pyphi.validate): raises ValueError on a    *)
(* value it does not recognise and returns normally on one it does.        *)
(***************************************************************************)
validate_direction(direction) ==
    IF direction \in {PAST, FUTURE} THEN "ok" ELSE "ValueError"

validate_measure(measure) ==
    IF measure \in DOMAIN measure_dict THEN "ok" ELSE "ValueError"

(***************************************************************************)
(* What a dispatcher call did: the value it returned or the exception it   *)
(* ended in (and who raised it), the primitives it invoked in order, and   *)
(* the branch it took.  raw is the value the invoked primitive returned.   *)
(***************************************************************************)
Returned(op, branch, prims, value) ==
    [op |-> op, kind |-> "return", value |-> value, exc |-> None,
     by |-> None, names |-> None, prims |-> prims, branch |-> branch]

Raised(op, branch, prims, exc, by, names) ==
    [op |-> op, kind |-> "raise", value |-> None, exc |-> exc,
     by |-> by, names |-> names, prims |-> prims, branch |-> branch]

NoCall ==
    [op |-> None, kind |-> None, value |-> None, exc |-> None,
     by |-> None, names |-> None, prims |-> <<>>, branch |-> None]

\* directional_emd whose else branch falls back to hamming_emd
directional_emd_default(direction, raw, precision) ==
    IF direction = FUTURE
    THEN Returned("directional_emd", FUTURE, <<"effect_emd">>,
                  round(raw, precision))
    ELSE Returned("directional_emd", PAST, <<"hamming_emd">>,
                  round(raw, precision))

\* distance.py 198-206
directional_emd(direction, raw, precision) ==
    IF direction = PAST
    THEN Returned("directional_emd", PAST, <<"hamming_emd">>,
                  round(raw, precision))
    ELSE IF direction = FUTURE
    THEN Returned("directional_emd", FUTURE, <<"effect_emd">>,
                  round(raw, precision))
    ELSE IF validate_direction(direction) # "ok"
    THEN Raised("directional_emd", "invalid", <<>>, "ValueError",
                "validate.direction", direction)
    \* validate.direction returned: func was never bound
    ELSE Raised("directional_emd", "invalid", <<>>, "UnboundLocalError",
                "directional_emd", "func")

\* small_phi_measure returning the mapped primitive's output unrounded
small_phi_measure_unrounded(direction, raw, measure, precision) ==
    IF measure = EMD
    THEN LET r == directional_emd(direction, raw, precision)
         IN  IF r.kind = "raise"
             THEN [r EXCEPT !.op = "small_phi_measure"]
             ELSE Returned("small_phi_measure", "emd", r.prims, r.value)
    ELSE IF measure \in DOMAIN measure_dict
    THEN Returned("small_phi_measure", "mapping", <<measure_dict[measure]>>,
                  raw)
    ELSE Raised("small_phi_measure", "invalid", <<>>, "ValueError",
                "validate.measure", measure)

\* distance.py 220-230
small_phi_measure(direction, raw, measure, precision) ==
    IF measure = EMD
    THEN LET r == directional_emd(direction, raw, precision)
         IN  IF r.kind = "raise"
             THEN [r EXCEPT !.op = "small_phi_measure"]
             ELSE Returned("small_phi_measure", "emd", r.prims,
                           round(r.value, precision))
    ELSE IF measure \in DOMAIN measure_dict
    THEN Returned("small_phi_measure", "mapping", <<measure_dict[measure]>>,
                  round(raw, precision))
    ELSE IF validate_measure(measure) # "ok"
    THEN Raised("small_phi_measure", "invalid", <<>>, "ValueError",
                "validate.measure", measure)
    \* validate.measure returned: dist was never bound
    ELSE Raised("small_phi_measure", "invalid", <<>>, "UnboundLocalError",
                "small_phi_measure", "dist")

\* big_phi_measure testing the asymmetric set after the registry lookup
big_phi_measure_late_check(raw, measure) ==
    IF measure \notin DOMAIN measure_dict
    THEN Raised("big_phi_measure", "invalid", <<>>, "ValueError",
                "validate.measure", measure)
    ELSE Returned("big_phi_measure", "mapping", <<measure_dict[measure]>>,
                  raw)

\* distance.py 243-250
big_phi_measure(raw, measure) ==
    IF measure \in ASYMMETRIC_MEASURES
    THEN Raised("big_phi_measure", "asymmetric", <<>>, "ValueError",
                "big_phi_measure", measure)
    ELSE IF measure \notin DOMAIN measure_dict
    THEN IF validate_measure(measure) # "ok"
         THEN Raised("big_phi_measure", "invalid", <<>>, "ValueError",
                     "validate.measure", measure)
         \* validate.measure returned: the lookup below fails
         ELSE Raised("big_phi_measure", "invalid", <<>>, "KeyError",
                     "big_phi_measure", measure)
    ELSE Returned("big_phi_measure", "mapping", <<measure_dict[measure]>>,
                  raw)

(***************************************************************************)
(* The dispatchers as operations of a process whose configuration another  *)
(* part of the program may change between calls.  Each call takes the      *)
(* direction and the value raw that the primitive it selects returns for   *)
(* the two repertoires.                                                    *)
(***************************************************************************)
Call(r, direction, raw) ==
    [res |-> r, direction |-> direction, raw |-> raw,
     measure |-> MEASURE, precision |-> PRECISION]

Configure(m, p) ==
    /\ MEASURE' = m
    /\ PRECISION' = p
    \* outcome is the last call made under the current configuration
    /\ outcome' = [res |-> NoCall, direction |-> None, raw |-> 0,
                   measure |-> m, precision |-> p]
    /\ UNCHANGED <<cacheVars, measureVars>>

CallDirectionalEmd(direction, raw) ==
    /\ outcome' = Call(directional_emd(direction, raw, PRECISION),
                       direction, raw)
    /\ UNCHANGED <<MEASURE, PRECISION, cacheVars, measureVars>>

CallSmallPhiMeasure(direction, raw) ==
    /\ outcome' = Call(small_phi_measure(direction, raw, MEASURE, PRECISION),
                       direction, raw)
    /\ UNCHANGED <<MEASURE, PRECISION, cacheVars, measureVars>>

CallBigPhiMeasure(raw) ==
    /\ outcome' = Call(big_phi_measure(raw, MEASURE), None, raw)
    /\ UNCHANGED <<MEASURE, PRECISION, cacheVars, measureVars>>

(***************************************************************************)
(* The State-Space Cost Provider.                                          *)
(***************************************************************************)
\* distance.py 19
_NUM_PRECOMPUTED_HAMMING_MATRICES == 10

\* requests ask for N in 0..MaxSmallN or in 9..MaxN
MaxSmallN == 1
MaxN == 11
\* a matrix is held by its side and its entries at the first and the last
\* Window state indices
Window == 2
\* the processes of the racing run
NumProcs == 2
\* requests answered in one run
MaxRequests == 2

RequestNs == (0 .. MaxSmallN) \cup ((_NUM_PRECOMPUTED_HAMMING_MATRICES - 1) .. MaxN)
ComputedNs == _NUM_PRECOMPUTED_HAMMING_MATRICES .. MaxN
RaceNs == (_NUM_PRECOMPUTED_HAMMING_MATRICES - 1) .. MaxN

\* a rational number in lowest terms
RECURSIVE Gcd(_, _)
Gcd(a, b) == IF b = 0 THEN a ELSE Gcd(b, a % b)

Frac(n, d) == LET g == Gcd(n, d) IN [num |-> n \div g, den |-> d \div g]

Whole(k) == [num |-> k, den |-> 1]

FracTimes(f, k) == Frac(f.num * k, f.den)

\* the state indices at which a matrix of side 2^N is held
Sample(N) ==
    LET side == Pow(2, N)
    IN  (0 .. (Min(Window, side) - 1)) \cup ((side - Min(Window, side)) .. (side - 1))

\* utils.all_states(N): the i-th state, the first node varying fastest
all_states(N, i) == [k \in 1 .. N |-> (i \div Pow(2, k - 1)) % 2]

\* scipy cdist(..., 'hamming'): the proportion of positions that differ
cdist_hamming(u, v) ==
    Frac(Cardinality({k \in DOMAIN u : u[k] # v[k]}), Len(u))

\* the entry without the final "* N"
computed_entry_unscaled(N, i, j) ==
    cdist_hamming(all_states(N, i), all_states(N, j))

\* distance.py 71-72: entry (i, j) of cdist(states, states, 'hamming') * N
computed_entry(N, i, j) ==
    FracTimes(cdist_hamming(all_states(N, i), all_states(N, j)), N)

\* distance.py 71-72: the body of _compute_hamming_matrix
compute_hamming_matrix_body(N) ==
    [side |-> Pow(2, N),
     entries |-> [ij \in Sample(N) \X Sample(N) |->
                    computed_entry(N, ij[1], ij[2])]]

\* the number of bit positions in which the N-bit patterns of i and j differ
RECURSIVE BitsDiffer(_, _, _)
BitsDiffer(i, j, N) ==
    IF N = 0 THEN 0
    ELSE (IF i % 2 # j % 2 THEN 1 ELSE 0) + BitsDiffer(i \div 2, j \div 2, N - 1)

\* distance.py 20-21: entry (i, j) of the bundled matrix for N (N = 0..9)
precomputed_entry(N, i, j) == Whole(BitsDiffer(i, j, N))

\* distance.py 20-21: the bundled table of matrices for N = 0..9
_hamming_matrices(N) ==
    [side |-> Pow(2, N),
     entries |-> [ij \in Sample(N) \X Sample(N) |->
                    precomputed_entry(N, ij[1], ij[2])]]

\* the joblib store: a key-value store read and written one entry at a time
cache_has(c, N) == N \in DOMAIN c

cache_get(c, N) == c[N]

\* a store that files the result under the key of the previous request size
cache_put_wrong_key(c, N, m) ==
    [k \in DOMAIN c \cup {N - 1} |-> IF k = N - 1 THEN m ELSE c[k]]

cache_put(c, N, m) ==
    [k \in DOMAIN c \cup {N} |-> IF k = N THEN m ELSE c[k]]

\* _hamming_matrix with the comparison the docstring of
\* _compute_hamming_matrix describes (N > threshold)
uses_precomputed_inclusive(N) == N <= _NUM_PRECOMPUTED_HAMMING_MATRICES

\* distance.py 43
uses_precomputed(N) == N < _NUM_PRECOMPUTED_HAMMING_MATRICES

NoMatrix == [side |-> 0, entries |-> <<>>]

InFlight == Cardinality({p \in procs : pc[p] \notin {"idle", "done"}})

\* distance.py 43-45: _hamming_matrix(N) up to the memoized call
Request(p, N) ==
    /\ pc[p] = "idle"
    /\ Len(trace) + InFlight < MaxRequests
    /\ req' = [req EXCEPT ![p] = N]
    /\ IF uses_precomputed(N)
       THEN /\ ret' = [ret EXCEPT ![p] = _hamming_matrices(N)]
            /\ pc' = [pc EXCEPT ![p] = "done"]
            /\ trace' = Append(trace, <<N, "precomputed">>)
       ELSE /\ pc' = [pc EXCEPT ![p] = "lookup"]
            /\ UNCHANGED <<ret, trace>>
    /\ UNCHANGED <<cache, computeCount, procs, local>>
    /\ UNCHANGED <<dispatchVars, measureVars>>

\* distance.py 48: the memoizing wrapper looks the argument up
Lookup(p) ==
    /\ pc[p] = "lookup"
    /\ IF cache_has(cache, req[p])
       THEN /\ ret' = [ret EXCEPT ![p] = cache_get(cache, req[p])]
            /\ pc' = [pc EXCEPT ![p] = "done"]
            /\ trace' = Append(trace, <<req[p], "cache">>)
       ELSE /\ pc' = [pc EXCEPT ![p] = "compute"]
            /\ UNCHANGED <<ret, trace>>
    /\ UNCHANGED <<cache, computeCount, procs, req, local>>
    /\ UNCHANGED <<dispatchVars, measureVars>>

\* distance.py 49-72: on a miss the wrapper runs the function
Compute(p) ==
    /\ pc[p] = "compute"
    /\ local' = [local EXCEPT ![p] = compute_hamming_matrix_body(req[p])]
    /\ computeCount' = [computeCount EXCEPT ![req[p]] = @ + 1]
    /\ pc' = [pc EXCEPT ![p] = "store"]
    /\ UNCHANGED <<cache, trace, procs, req, ret>>
    /\ UNCHANGED <<dispatchVars, measureVars>>

\* distance.py 48: the wrapper stores the result and returns it
Store(p) ==
    /\ pc[p] = "store"
    /\ cache' = cache_put(cache, req[p], local[p])
    /\ ret' = [ret EXCEPT ![p] = local[p]]
    /\ pc' = [pc EXCEPT ![p] = "done"]
    /\ trace' = Append(trace, <<req[p], "computed">>)
    /\ UNCHANGED <<computeCount, procs, req, local>>
    /\ UNCHANGED <<dispatchVars, measureVars>>

\* the caller takes the matrix; the process is free for its next request
Finish(p) ==
    /\ pc[p] = "done"
    /\ pc' = [pc EXCEPT ![p] = "idle"]
    /\ UNCHANGED <<cache, computeCount, trace, procs, req, local, ret>>
    /\ UNCHANGED <<dispatchVars, measureVars>>

\* a process ends between two requests and a new one starts: everything it
\* held in memory is gone, the persistent store is kept
Restart(p) ==
    /\ pc[p] = "idle"
    /\ ret[p].side # 0
    /\ ret' = [ret EXCEPT ![p] = NoMatrix]
    /\ local' = [local EXCEPT ![p] = NoMatrix]
    /\ UNCHANGED <<cache, computeCount, trace, procs, req, pc>>
    /\ UNCHANGED <<dispatchVars, measureVars>>

(***************************************************************************)
(* Distributions: a dense array with one axis per variable, held as its    *)
(* shape, its masses by index tuple, and the common denominator of the     *)
(* masses (every mass is data[t] / den).                                   *)
(***************************************************************************)
\* marginal probabilities are multiples of 1/MarginalGrid
MarginalGrid == 2
\* arrays have at most MaxAxes axes
MaxAxes == 3
\* the masses mp2q is given are multiples of 1/MassUnits
MassUnits == 2

RECURSIVE Prod(_, _)
Prod(s, n) == IF n = 0 THEN 1 ELSE s[n] * Prod(s, n - 1)

RECURSIVE SumTo(_, _)
SumTo(g, n) == IF n < 0 THEN 0 ELSE g[n] + SumTo(g, n - 1)

Idx(shape) ==
    {t \in [1 .. Len(shape) -> {0, 1}] :
        \A k \in 1 .. Len(shape) : t[k] < shape[k]}

\* ndarray.ndim
ndim(d) == Len(d.shape)

\* ndarray.size
size(d) == Prod(d.shape, Len(d.shape))

\* ndarray.squeeze(): the shape without its axes of length 1
squeeze(shape) == SelectSeq(shape, LAMBDA n : n # 1)

\* the index tuple of flat position i, the first axis varying fastest
Unravel(i, shape) ==
    [k \in 1 .. Len(shape) |-> (i \div Prod(shape, k - 1)) % shape[k]]

\* distribution.flatten(d): d.squeeze().ravel(order='F')
flatten(d) == [i \in 0 .. (size(d) - 1) |-> d.data[Unravel(i, d.shape)]]

\* distribution.marginal_zero(d, i): the mass of the states with node i off
marginal_zero(d, k) ==
    LET off == {t \in Idx(d.shape) : t[k] = 0}
        RECURSIVE Total(_)
        Total(S) == IF S = {} THEN 0
                    ELSE LET t == CHOOSE u \in S : TRUE
                         IN  d.data[t] + Total(S \ {t})
    IN  Total(off)

\* the product of independent per-variable marginals: variable k is off
\* with probability marg[k] / MarginalGrid
ProductDistribution(shape, marg) ==
    [shape |-> shape,
     den |-> Pow(MarginalGrid, Len(squeeze(shape))),
     data |-> [t \in Idx(shape) |->
                 Prod([k \in 1 .. Len(shape) |->
                         IF shape[k] = 1 THEN 1
                         ELSE IF t[k] = 0 THEN marg[k]
                         ELSE MarginalGrid - marg[k]], Len(shape))]]

Marginals(shape) ==
    {m \in [1 .. Len(shape) -> 0 .. MarginalGrid] :
        \A k \in 1 .. Len(shape) : shape[k] = 1 => m[k] = 0}

\* a distribution that is one joint state with certainty
PointDistribution(shape, t) ==
    [shape |-> shape, den |-> 1,
     data |-> [u \in Idx(shape) |-> IF u = t THEN 1 ELSE 0]]

\* any distribution of the given shape with masses in 1/MassUnits
Distributions(shape) ==
    {[shape |-> shape, den |-> MassUnits, data |-> g] :
        g \in {h \in [Idx(shape) -> 0 .. MassUnits] :
                 SumTo(flatten([shape |-> shape, data |-> h]),
                       Prod(shape, Len(shape)) - 1) = MassUnits}}

NoDistribution == [shape |-> <<>>, den |-> 0, data |-> <<>>]

(***************************************************************************)
(* pyemd.emd(first, second, distance_matrix): the minimum cost of moving   *)
(* the mass of first onto second, found by successive shortest paths in    *)
(* the residual transport network (Bellman-Ford, since residual arcs have  *)
(* negative cost).                                                         *)
(***************************************************************************)
\* larger than any path cost: marks a node no path reaches
Unreached == Pow(2, 20)

SetMin(S) == CHOOSE x \in S : \A y \in S : x <= y

BFInit(a, K) ==
    [ds |-> [i \in 0 .. K - 1 |-> IF a[i] > 0 THEN 0 ELSE Unreached],
     dt |-> [j \in 0 .. K - 1 |-> Unreached],
     ps |-> [i \in 0 .. K - 1 |-> -1],
     pt |-> [j \in 0 .. K - 1 |-> -1]]

RelaxSinks(st, c, K) ==
    LET from == {i \in 0 .. K - 1 : st.ds[i] < Unreached}
        nd == [j \in 0 .. K - 1 |->
                 IF from = {} THEN st.dt[j]
                 ELSE Min(st.dt[j], SetMin({st.ds[i] + c[i][j] : i \in from}))]
    IN  [st EXCEPT
           !.dt = nd,
           !.pt = [j \in 0 .. K - 1 |->
                     IF nd[j] < st.dt[j]
                     THEN CHOOSE i \in from : st.ds[i] + c[i][j] = nd[j]
                     ELSE st.pt[j]]]

RelaxSources(st, f, c, K) ==
    LET from(i) == {j \in 0 .. K - 1 : f[i][j] > 0 /\ st.dt[j] < Unreached}
        nd == [i \in 0 .. K - 1 |->
                 IF from(i) = {} THEN st.ds[i]
                 ELSE Min(st.ds[i],
                          SetMin({st.dt[j] - c[i][j] : j \in from(i)}))]
    IN  [st EXCEPT
           !.ds = nd,
           !.ps = [i \in 0 .. K - 1 |->
                     IF nd[i] < st.ds[i]
                     THEN CHOOSE j \in from(i) : st.dt[j] - c[i][j] = nd[i]
                     ELSE st.ps[i]]]

RECURSIVE BellmanFord(_, _, _, _)
BellmanFord(st, f, c, K) ==
    LET st2 == RelaxSources(RelaxSinks(st, c, K), f, c, K)
    IN  IF st2 = st THEN st ELSE BellmanFord(st2, f, c, K)

RECURSIVE PathRoot(_, _)
PathRoot(st, j) ==
    LET i == st.pt[j] IN IF st.ps[i] = -1 THEN i ELSE PathRoot(st, st.ps[i])

RECURSIVE PathSlack(_, _, _)
PathSlack(st, f, j) ==
    LET i == st.pt[j]
    IN  IF st.ps[i] = -1 THEN Unreached
        ELSE Min(f[i][st.ps[i]], PathSlack(st, f, st.ps[i]))

RECURSIVE Augment(_, _, _, _)
Augment(st, f, j, delta) ==
    LET i == st.pt[j]
        f1 == [f EXCEPT ![i][j] = @ + delta]
    IN  IF st.ps[i] = -1 THEN f1
        ELSE Augment(st, [f1 EXCEPT ![i][st.ps[i]] = @ - delta],
                     st.ps[i], delta)

RECURSIVE MinCostFlow(_, _, _, _, _)
MinCostFlow(f, a, b, c, K) ==
    IF \A i \in 0 .. K - 1 : a[i] = 0 THEN f
    ELSE LET st == BellmanFord(BFInit(a, K), f, c, K)
             open == {j \in 0 .. K - 1 : b[j] > 0}
             tgt == CHOOSE j \in open : \A j2 \in open : st.dt[j] <= st.dt[j2]
             root == PathRoot(st, tgt)
             delta == Min(Min(a[root], b[tgt]), PathSlack(st, f, tgt))
         IN  MinCostFlow(Augment(st, f, tgt, delta),
                         [a EXCEPT ![root] = @ - delta],
                         [b EXCEPT ![tgt] = @ - delta], c, K)

emd(a, b, c) ==
    LET K == Cardinality(DOMAIN a)
        zero == [i \in 0 .. K - 1 |-> [j \in 0 .. K - 1 |-> 0]]
        f == MinCostFlow(zero, a, b, c, K)
    IN  SumTo([i \in 0 .. K - 1 |->
                 SumTo([j \in 0 .. K - 1 |-> f[i][j] * c[i][j]], K - 1)],
              K - 1)

(***************************************************************************)
(* hamming_emd and effect_emd.  A result is in units of 1/den.             *)
(***************************************************************************)
\* one entry of the matrix _hamming_matrix(N) returns
hamming_matrix_entry(N, i, j) ==
    IF uses_precomputed(N)
    THEN precomputed_entry(N, i, j)
    ELSE computed_entry(N, i, j)

\* the side of the matrix _hamming_matrix(N) returns
hamming_matrix_side(N) ==
    IF uses_precomputed(N) THEN _hamming_matrices(N).side
    ELSE compute_hamming_matrix_body(N).side

\* N taken from the array as given, singleton axes counted
emd_variables_unsqueezed(d) == Len(d.shape)

\* distance.py 83: N = d1.squeeze().ndim
emd_variables(d) == Len(squeeze(d.shape))

\* distance.py 83-85
hamming_emd(a, b) ==
    LET N == emd_variables(a)
        fa == flatten(a)
        fb == flatten(b)
        side == hamming_matrix_side(N)
        c == [i \in 0 .. side - 1 |->
                [j \in 0 .. side - 1 |-> hamming_matrix_entry(N, i, j).num]]
    IN  IF Cardinality(DOMAIN fa) # side \/ Cardinality(DOMAIN fb) # side
        \* pyemd refuses histograms that do not fit the distance matrix
        THEN [kind |-> "raise", value |-> 0, N |-> N, side |-> side,
              len1 |-> Cardinality(DOMAIN fa), len2 |-> Cardinality(DOMAIN fb)]
        ELSE [kind |-> "return", value |-> emd(fa, fb, c), N |-> N,
              side |-> side,
              len1 |-> Cardinality(DOMAIN fa), len2 |-> Cardinality(DOMAIN fb)]

\* effect_emd summing the signed differences
effect_emd_signed(a, b) ==
    IF ndim(a) > ndim(b)
    THEN [kind |-> "raise", value |-> 0]
    ELSE [kind |-> "return",
          value |-> SumTo([k \in 0 .. ndim(a) - 1 |->
                             marginal_zero(a, k + 1) - marginal_zero(b, k + 1)],
                          ndim(a) - 1)]

\* distance.py 103-104
effect_emd(a, b) ==
    IF ndim(a) > ndim(b)
    \* marginal_zero indexes an axis the second array does not have
    THEN [kind |-> "raise", value |-> 0]
    ELSE [kind |-> "return",
          value |-> SumTo([k \in 0 .. ndim(a) - 1 |->
                             Abs(marginal_zero(a, k + 1)
                                 - marginal_zero(b, k + 1))],
                          ndim(a) - 1)]

NotCalled == [kind |-> None, value |-> 0]

NoEmd == [hamming |-> NotCalled, effect |-> NotCalled]

CallHammingEmd ==
    /\ emdOut.hamming.kind = None
    /\ emdOut' = [emdOut EXCEPT !.hamming = hamming_emd(d1, d2)]
    /\ UNCHANGED <<d1, d2, mpOut>>
    /\ UNCHANGED <<dispatchVars, cacheVars>>

CallEffectEmd ==
    /\ emdOut.effect.kind = None
    /\ emdOut' = [emdOut EXCEPT !.effect = effect_emd(d1, d2)]
    /\ UNCHANGED <<d1, d2, mpOut>>
    /\ UNCHANGED <<dispatchVars, cacheVars>>

(***************************************************************************)
(* mp2q.  A float is held by its class: "zero", "pos" and "neg" (finite),  *)
(* "inf", "-inf", "nan", and "max" / "-max" for the largest finite         *)
(* magnitude, which is what numpy.nan_to_num puts in place of an infinity. *)
(***************************************************************************)
mass_class(n) == IF n = 0 THEN "zero" ELSE "pos"

\* x / y for x, y >= 0 (numpy: a warning, not an error, on a zero divisor)
float_div(x, y) ==
    CASE x = "pos" /\ y = "pos" -> "pos"
      [] x = "zero" /\ y = "pos" -> "zero"
      [] x = "pos" /\ y = "zero" -> "inf"
      [] x = "zero" /\ y = "zero" -> "nan"

\* numpy.log of the quotient p / q held as class r
float_log(r, p, q) ==
    CASE r = "zero" -> "-inf"
      [] r = "inf" -> "inf"
      [] r = "nan" -> "nan"
      [] r = "pos" -> IF p > q THEN "pos" ELSE IF p = q THEN "zero" ELSE "neg"

float_negative(x) == x \in {"neg", "-inf", "-max"}

float_mul(x, y) ==
    IF x = "nan" \/ y = "nan" THEN "nan"
    ELSE IF (x = "zero" /\ y \in {"inf", "-inf"})
            \/ (y = "zero" /\ x \in {"inf", "-inf"}) THEN "nan"
    ELSE IF x = "zero" \/ y = "zero" THEN "zero"
    ELSE IF x \in {"inf", "-inf"} \/ y \in {"inf", "-inf"}
    THEN (IF float_negative(x) = float_negative(y) THEN "inf" ELSE "-inf")
    \* the largest finite magnitude times a factor in (0, 1] stays of that
    \* order: 1.8e308 / k
    ELSE IF x \in {"max", "-max"} \/ y \in {"max", "-max"}
    THEN (IF float_negative(x) = float_negative(y) THEN "max" ELSE "-max")
    ELSE (IF float_negative(x) = float_negative(y) THEN "pos" ELSE "neg")

\* numpy.nan_to_num
nan_to_num(x) ==
    CASE x = "nan" -> "zero"
      [] x = "inf" -> "max"
      [] x = "-inf" -> "-max"
      [] OTHER -> x

\* distance.py 164: one element of
\* entropy_dist * nan_to_num((p ** 2) / q * log(p / q))
mp2q_term(p, q) ==
    LET pc1 == mass_class(p)
        qc == mass_class(q)
        square == pc1
        left == float_div(square, qc)
        right == float_log(float_div(pc1, qc), p, q)
        kept == nan_to_num(float_mul(left, right))
    IN  \* entropy_dist = 1 / len(p) is positive and finite
        [cls |-> float_mul("pos", kept), p |-> p, q |-> q]

\* the sum of terms: how many of them are the largest finite magnitude
\* (signed), and the finite nonzero ones in order
RECURSIVE SumTerms(_, _)
SumTerms(terms, n) ==
    IF n < 0 THEN [max |-> 0, finite |-> <<>>]
    ELSE LET rest == SumTerms(terms, n - 1)
             t == terms[n]
         IN  CASE t.cls = "zero" -> rest
               [] t.cls = "max" -> [rest EXCEPT !.max = @ + 1]
               [] t.cls = "-max" -> [rest EXCEPT !.max = @ - 1]
               [] OTHER -> [rest EXCEPT !.finite = Append(@, <<t.p, t.q>>)]

\* distance.py 162-164
mp2q(a, b) ==
    LET fp == flatten(a)
        fq == flatten(b)
        k == Cardinality(DOMAIN fp)
        terms == [i \in 0 .. k - 1 |-> mp2q_term(fp[i], fq[i])]
    IN  [called |-> TRUE, terms |-> terms, value |-> SumTerms(terms, k - 1)]

NoMp2q == [called |-> FALSE, terms |-> <<>>, value |-> [max |-> 0, finite |-> <<>>]]

CallMp2q ==
    /\ ~mpOut.called
    /\ mpOut' = mp2q(d1, d2)
    /\ UNCHANGED <<d1, d2, emdOut>>
    /\ UNCHANGED <<dispatchVars, cacheVars>>

(***************************************************************************)
(* The state machines.                                                     *)
(***************************************************************************)
IdleDispatch ==
    /\ MEASURE = EMD
    /\ PRECISION = 0
    /\ outcome = Call(NoCall, None, 0)

IdleCache ==
    /\ cache = <<>>
    /\ computeCount = <<>>
    /\ trace = <<>>
    /\ procs = {}
    /\ pc = <<>>
    /\ req = <<>>
    /\ local = <<>>
    /\ ret = <<>>

IdleMeasures ==
    /\ d1 = NoDistribution
    /\ d2 = NoDistribution
    /\ emdOut = NoEmd
    /\ mpOut = NoMp2q

\* the dispatchers: any configuration, no call made yet
InitDispatch ==
    /\ MEASURE \in Measures
    /\ PRECISION \in Precisions
    /\ outcome = [res |-> NoCall, direction |-> None, raw |-> 0,
                  measure |-> MEASURE, precision |-> PRECISION]
    /\ IdleCache
    /\ IdleMeasures

NextDispatch ==
    \/ \E m \in Measures, p \in Precisions : Configure(m, p)
    \/ \E dir \in Directions, raw \in RawValues : CallDirectionalEmd(dir, raw)
    \/ \E dir \in Directions, raw \in RawValues : CallSmallPhiMeasure(dir, raw)
    \/ \E raw \in RawValues : CallBigPhiMeasure(raw)

SpecDispatch == InitDispatch /\ [][NextDispatch]_vars

\* the persistent store as earlier runs of this code left it
StoreLeftBy(S) == [n \in S |-> compute_hamming_matrix_body(n)]

InitProvider(P) ==
    /\ cache \in {StoreLeftBy(S) : S \in SUBSET ComputedNs}
    /\ computeCount = [n \in ComputedNs |-> 0]
    /\ trace = <<>>
    /\ procs = P
    /\ pc = [p \in P |-> "idle"]
    /\ req = [p \in P |-> 0]
    /\ local = [p \in P |-> NoMatrix]
    /\ ret = [p \in P |-> NoMatrix]
    /\ IdleDispatch
    /\ IdleMeasures

\* one process: its requests come one after the other
InitSeq == InitProvider({1})

NextSeq ==
    \/ \E p \in procs, N \in RequestNs : Request(p, N)
    \/ \E p \in procs : Lookup(p)
    \/ \E p \in procs : Compute(p)
    \/ \E p \in procs : Store(p)
    \/ \E p \in procs : Finish(p)
    \/ \E p \in procs : Restart(p)

SpecSeq == InitSeq /\ [][NextSeq]_vars

\* several processes sharing the persistent store, each asking once for a
\* matrix around the threshold
InitRace == InitProvider(1 .. NumProcs)

NextRace ==
    \/ \E p \in procs, N \in RaceNs : Request(p, N)
    \/ \E p \in procs : Lookup(p)
    \/ \E p \in procs : Compute(p)
    \/ \E p \in procs : Store(p)

SpecRace == InitRace /\ [][NextRace]_vars

NextEmd == CallHammingEmd \/ CallEffectEmd

\* 2- and 3-variable products of independent marginals
InitEmd ==
    /\ \E shape \in {<<2, 2>>, <<2, 2, 2>>} :
        \E m1 \in Marginals(shape), m2 \in Marginals(shape) :
            /\ d1 = ProductDistribution(shape, m1)
            /\ d2 = ProductDistribution(shape, m2)
    /\ emdOut = NoEmd
    /\ mpOut = NoMp2q
    /\ IdleDispatch
    /\ IdleCache

SpecEmd == InitEmd /\ [][NextEmd]_vars

Shapes == UNION {[1 .. n -> {1, 2}] : n \in 1 .. MaxAxes}

\* arrays with singleton axes whose shapes agree once squeezed
InitShape ==
    /\ \E s1 \in Shapes, s2 \in Shapes :
        /\ squeeze(s1) = squeeze(s2)
        /\ \E t1 \in Idx(s1), t2 \in Idx(s2) :
            /\ d1 = PointDistribution(s1, t1)
            /\ d2 = PointDistribution(s2, t2)
    /\ emdOut = NoEmd
    /\ mpOut = NoMp2q
    /\ IdleDispatch
    /\ IdleCache

SpecShape == InitShape /\ [][NextEmd]_vars

\* any two distributions of one shape, zero masses included
InitMp2q ==
    /\ \E shape \in {<<2>>, <<2, 2>>} :
        /\ d1 \in Distributions(shape)
        /\ d2 \in Distributions(shape)
    /\ emdOut = NoEmd
    /\ mpOut = NoMp2q
    /\ IdleDispatch
    /\ IdleCache

SpecMp2q == InitMp2q /\ [][CallMp2q]_vars

(***************************************************************************)
(* Properties.                                                             *)
(***************************************************************************)
Invoked(r) == {r.prims[k] : k \in DOMAIN r.prims}

\* C1: directional_emd selects hamming_emd for PAST and effect_emd for
\* FUTURE; for any other direction the call ends in the error raised by
\* validate.direction, returns no distance and invokes no primitive.
C1_DirectionalDispatch ==
    LET r == outcome.res
    IN  r.op = "directional_emd" =>
            /\ outcome.direction = PAST =>
                   r.kind = "return" /\ r.prims = <<"hamming_emd">>
            /\ outcome.direction = FUTURE =>
                   r.kind = "return" /\ r.prims = <<"effect_emd">>
            /\ outcome.direction \notin {PAST, FUTURE} =>
                   /\ r.kind = "raise"
                   /\ r.by = "validate.direction"
                   /\ r.prims = <<>>

\* C1 witness: directional_emd was called with a direction that is neither
\* PAST nor FUTURE and ended in the validation error.
C1_Witness ==
    /\ outcome.res.op = "directional_emd"
    /\ outcome.direction = BIDIRECTIONAL
    /\ outcome.res.kind = "raise"

\* C2: with KLD or MP2Q configured, big_phi_measure raises an error that
\* names the configured measure, raised by the dispatcher itself before any
\* primitive or the validation collaborator is invoked.
C2_AsymmetricRejected ==
    LET r == outcome.res
    IN  (r.op = "big_phi_measure" /\ outcome.measure \in {KLD, MP2Q}) =>
            /\ r.kind = "raise"
            /\ r.exc = "ValueError"
            /\ r.by = "big_phi_measure"
            /\ r.names = outcome.measure
            /\ r.prims = <<>>

\* C2 witness: big_phi_measure was called with MP2Q configured.
C2_Witness ==
    /\ outcome.res.op = "big_phi_measure"
    /\ outcome.measure = MP2Q
    /\ outcome.res.kind = "raise"

\* C3: small_phi_measure returns the selected primitive's raw output
\* rounded once to the configured precision P (0..10): the directional EMD
\* primitive under the EMD identifier, the mapped primitive under any other
\* identifier of the mapping; an identifier outside both is a validation
\* failure with no value.
C3_SmallPhiRounding ==
    LET r == outcome.res
        once == round(outcome.raw, outcome.precision)
    IN  r.op = "small_phi_measure" =>
            /\ (outcome.measure = EMD /\ outcome.direction = PAST) =>
                   /\ r.kind = "return" /\ r.value = once
                   /\ r.prims = <<"hamming_emd">>
            /\ (outcome.measure = EMD /\ outcome.direction = FUTURE) =>
                   /\ r.kind = "return" /\ r.value = once
                   /\ r.prims = <<"effect_emd">>
            /\ outcome.measure = KLD =>
                   r.kind = "return" /\ r.value = once /\ r.prims = <<"kld">>
            /\ outcome.measure = L1 =>
                   r.kind = "return" /\ r.value = once /\ r.prims = <<"l1">>
            /\ outcome.measure = ENTROPY_DIFFERENCE =>
                   /\ r.kind = "return" /\ r.value = once
                   /\ r.prims = <<"entropy_difference">>
            /\ outcome.measure = PSQ2 =>
                   r.kind = "return" /\ r.value = once /\ r.prims = <<"psq2">>
            /\ outcome.measure = MP2Q =>
                   r.kind = "return" /\ r.value = once /\ r.prims = <<"mp2q">>
            /\ outcome.measure \notin {EMD, KLD, L1, ENTROPY_DIFFERENCE,
                                       PSQ2, MP2Q} =>
                   /\ r.kind = "raise"
                   /\ r.by = "validate.measure"
                   /\ r.prims = <<>>

\* C3 witness: small_phi_measure went through directional_emd (two
\* roundings) at precision 0 on a raw value that rounding changes.
C3_Witness ==
    /\ outcome.res.op = "small_phi_measure"
    /\ outcome.measure = EMD
    /\ outcome.precision = 0
    /\ outcome.res.kind = "return"
    /\ outcome.res.value # outcome.raw

\* C4 as stated: no call of big_phi_measure and no call through the mapping
\* branch of small_phi_measure ever invokes hamming_emd.
C4_HammingOnlyDirectional ==
    LET r == outcome.res
    IN  (r.op = "big_phi_measure"
         \/ (r.op = "small_phi_measure" /\ r.branch = "mapping")) =>
            "hamming_emd" \notin Invoked(r)

\* C4 amended: the mapping has the entry EMD -> hamming_emd.  The mapping
\* branch of small_phi_measure never invokes hamming_emd; directional_emd
\* (alone or under small_phi_measure) invokes it exactly for PAST; and
\* big_phi_measure invokes it exactly when EMD is the configured measure.
C4_HammingReachedByEmdEntry ==
    LET r == outcome.res
    IN  /\ (r.op = "small_phi_measure" /\ r.branch = "mapping") =>
               "hamming_emd" \notin Invoked(r)
        /\ (r.op = "directional_emd"
            \/ (r.op = "small_phi_measure" /\ outcome.measure = EMD)) =>
               ("hamming_emd" \in Invoked(r) <=> outcome.direction = PAST)
        /\ r.op = "big_phi_measure" =>
               ("hamming_emd" \in Invoked(r) <=> outcome.measure = EMD)

\* C4 witness: big_phi_measure, with EMD configured, returned what
\* hamming_emd returned.
C4_Witness ==
    /\ outcome.res.op = "big_phi_measure"
    /\ outcome.measure = EMD
    /\ outcome.res.kind = "return"
    /\ outcome.res.prims = <<"hamming_emd">>

\* the number of bit positions in which i and j differ, counted bit by bit
HammingDistance(i, j, N) ==
    Cardinality({k \in 0 .. N - 1 :
                   (i \div Pow(2, k)) % 2 # (j \div Pow(2, k)) % 2})

\* C5: the matrix _hamming_matrix(N) returns is 2^N by 2^N, symmetric, has
\* a zero diagonal and integer entries in [0, N], and its entry (i, j) is
\* the number of bit positions in which states i and j differ.
C5_MatrixIsHamming ==
    \A p \in procs :
        pc[p] = "done" =>
            LET N == req[p]
                m == ret[p]
            IN  /\ m.side = Pow(2, N)
                /\ DOMAIN m.entries = Sample(N) \X Sample(N)
                /\ \A i \in Sample(N), j \in Sample(N) :
                       LET e == m.entries[<<i, j>>]
                       IN  /\ e.den = 1
                           /\ e.num \in 0 .. N
                           /\ e = m.entries[<<j, i>>]
                           /\ (i = j => e.num = 0)
                           /\ e.num = HammingDistance(i, j, N)

\* C5 witness: a matrix for N = 11 was computed and returned.
C5_Witness ==
    \E p \in procs :
        /\ pc[p] = "done"
        /\ req[p] = 11
        /\ trace # <<>>
        /\ trace[Len(trace)] = <<11, "computed">>

\* what holds of the requests answered so far
ProviderDiscipline ==
    /\ \A k \in 1 .. Len(trace) :
           trace[k][1] < 10 <=> trace[k][2] = "precomputed"
    /\ \A n \in DOMAIN cache : n >= 10
    /\ \A n \in DOMAIN computeCount : computeCount[n] <= 1
    /\ \A k \in 1 .. Len(trace), l \in 1 .. Len(trace) :
           (k < l /\ trace[k][1] = trace[l][1] /\ trace[l][1] >= 10) =>
               trace[l][2] = "cache"

CorrectMatrix(N) ==
    [side |-> Pow(2, N),
     entries |-> [ij \in Sample(N) \X Sample(N) |->
                    [num |-> HammingDistance(ij[1], ij[2], N), den |-> 1]]]

RaceSafe ==
    /\ \A p \in procs : pc[p] = "done" => ret[p] = CorrectMatrix(req[p])
    /\ \A n \in DOMAIN cache : cache[n] = CorrectMatrix(n)

\* C7: however the cache reads, computations and cache writes of racing
\* processes interleave, every process returns the correct matrix for its
\* N, and a cache entry, once written, stays and holds that matrix.
C7_RaceIsBenign ==
    [][/\ RaceSafe'
       /\ \A n \in DOMAIN cache :
              n \in DOMAIN cache' /\ cache'[n] = cache[n]]_vars

\* C7 witness: two processes both missed the cache for the same N, both
\* computed it, and both have returned.
C7_Witness ==
    \E p \in procs, q \in procs :
        /\ p # q
        /\ pc[p] = "done" /\ pc[q] = "done"
        /\ req[p] = req[q]
        /\ req[p] \in DOMAIN computeCount
        /\ computeCount[req[p]] >= 2
        /\ Len(trace) >= 2
        /\ trace[Len(trace)][2] = "computed"
        /\ trace[Len(trace) - 1][2] = "computed"

\* C8 as stated: in mp2q every state at which p or q is zero contributes
\* exactly zero, so the result is the sum over the states where both are
\* positive.
C8_ZeroMassContributesZero ==
    mpOut.called =>
        LET fp == flatten(d1)
            fq == flatten(d2)
            k == Cardinality(DOMAIN fp)
            positive == [i \in 0 .. k - 1 |->
                           IF fp[i] > 0 /\ fq[i] > 0
                           THEN mp2q_term(fp[i], fq[i])
                           ELSE [cls |-> "zero", p |-> fp[i], q |-> fq[i]]]
        IN  /\ \A i \in 0 .. k - 1 :
                   (fp[i] = 0 \/ fq[i] = 0) => mpOut.terms[i].cls = "zero"
            /\ mpOut.value = SumTerms(positive, k - 1)

\* C9: for 2- and 3-variable products of independent marginals, effect_emd
\* and hamming_emd return the same distance.
C9_EffectEqualsHamming ==
    (emdOut.hamming.kind # None /\ emdOut.effect.kind # None) =>
        /\ emdOut.hamming.kind = "return"
        /\ emdOut.effect.kind = "return"
        /\ emdOut.effect.value = emdOut.hamming.value

\* C9 witness: both were run on two different 3-variable distributions,
\* the first with all eight masses positive, the second spread over
\* several states.
C9_Witness ==
    /\ emdOut.hamming.kind = "return"
    /\ emdOut.effect.kind = "return"
    /\ Len(d1.shape) = 3
    /\ emdOut.hamming.value > 0
    /\ \A t \in Idx(d1.shape) : d1.data[t] > 0
    /\ Cardinality({t \in Idx(d2.shape) : d2.data[t] > 0}) >= 2

\* C10: in hamming_emd the N used to fetch the cost matrix is the number of
\* non-singleton axes, and the matrix side 2^N is the length of both
\* flattened mass vectors, singleton axes or not.
C10_MatrixFitsMassVectors ==
    emdOut.hamming.kind # None =>
        LET h == emdOut.hamming
        IN  /\ h.kind = "return"
            /\ h.N = Cardinality({k \in 1 .. Len(d1.shape) : d1.shape[k] # 1})
            /\ h.side = Pow(2, h.N)
            /\ h.len1 = h.side
            /\ h.len2 = h.side

\* C10 witness: hamming_emd ran on arrays that have singleton axes in
\* different places.
C10_Witness ==
    /\ emdOut.hamming.kind = "return"
    /\ d1.shape # d2.shape
    /\ \E k \in 1 .. Len(d1.shape) : d1.shape[k] = 1
    /\ \E k \in 1 .. Len(d1.shape) : d1.shape[k] = 2

====
